---- MODULE Spec2Model ----
(***************************************************************************)
(* A model of stock-data-fetcher: the command-line run (cli.py main), the  *)
(* symbol normalizer (utils.py), the per-date TWSE collectors              *)
(* (institutional_fetcher.py, daytrade_fetcher.py, twse_api.py) with the   *)
(* retries of _get_json, the merge engine (merger.py) and the per-symbol   *)
(* writer (writer.py).                                                     *)
(*                                                                         *)
(* Text is modelled as a sequence of one-character strings, so that        *)
(* trimming, suffixing, splitting and parsing are computed and not assumed.*)
(* A cell value of a table is a tuple of integers: <<>> is the null value  *)
(* (NaN / <NA>), <<n>> the integer n, <<n, d>> the quotient n / d with     *)
(* d # 0, and <<1, 0>>, <<-1, 0>> are +inf and -inf.                       *)
(***************************************************************************)
EXTENDS Integers, Sequences, FiniteSets, TLC

VARIABLES
    \* ---- normalize_symbols called once and then on its own output
    nRaw, nOut, nTwice, nPc,
    \* ---- one run of main
    args, pc, exitCode, calls, symbols, start, end, data, written,
    date_range, t86_df, daytrade_df, mergeIdx, merged_written,
    \* ---- one call of a collector (collect_t86, collect_daytrade, collect_bfi82u)
    cKind, cDates, cIdx, cVisited, cFrames, cMissing, cConcat, cResult, cPc,
    \* ---- one call of merge_price_institution_daytrade
    price_df, inst_df, dt_df, mSymbol, mResult, mPc,
    \* ---- generate_filename called once and then again on the same arguments
    fSymbol, fStart, fEnd, fExt, fName, fAgain, fPc,
    \* ---- one call of write_symbol_frames
    wDf, wSymbols, wStart, wEnd, wFormat, wIdx, wWritten, wResult, wPc,
    \* ---- one fetch_*_single of a collector, with the attempts of _get_json
    gKind, gDate, gCsv, gRetry, gAttempt, gLog, gJs, gFetched, gMissing, gPc

normVars    == <<nRaw, nOut, nTwice, nPc>>
mainVars    == <<args, pc, exitCode, calls, symbols, start, end, data, written,
                 date_range, t86_df, daytrade_df, mergeIdx, merged_written>>
collectVars == <<cKind, cDates, cIdx, cVisited, cFrames, cMissing, cConcat, cResult, cPc>>
mergeVars   == <<price_df, inst_df, dt_df, mSymbol, mResult, mPc>>
fileVars    == <<fSymbol, fStart, fEnd, fExt, fName, fAgain, fPc>>
writerVars  == <<wDf, wSymbols, wStart, wEnd, wFormat, wIdx, wWritten, wResult, wPc>>
retryVars   == <<gKind, gDate, gCsv, gRetry, gAttempt, gLog, gJs, gFetched, gMissing, gPc>>
vars        == <<normVars, mainVars, collectVars, mergeVars, fileVars, writerVars, retryVars>>

(***************************************************************************)
(* Bounds of the model.                                                    *)
(***************************************************************************)
MaxRaw == 3          \* raw symbol tokens given to normalize_symbols
MaxDates == 3        \* dates given to a collector
MaxInstRows == 2     \* rows of the institutional table given to the merge
MaxDtRows == 1       \* rows of the day-trade table given to the merge
MaxSyms == 2         \* symbols requested of write_symbol_frames
MaxRetry == 2        \* retry count given to _get_json

\* Python's None.  A value that may be None is a record when it is not, and text
\* that may be None is wrapped by Text.
None == [none |-> TRUE]
Text(s) == [text |-> s]

(***************************************************************************)
(* Text helpers.                                                           *)
(***************************************************************************)
Digits == {"0", "1", "2", "3", "4", "5", "6", "7", "8", "9"}
Whitespace == {" "}

RECURSIVE lstrip(_)
lstrip(s) == IF s # <<>> /\ Head(s) \in Whitespace THEN lstrip(Tail(s)) ELSE s

RECURSIVE rstrip(_)
rstrip(s) ==
    IF s # <<>> /\ s[Len(s)] \in Whitespace THEN rstrip(SubSeq(s, 1, Len(s) - 1)) ELSE s

\* str.strip()
strip(s) == rstrip(lstrip(s))

AllDigits(s) == \A i \in 1..Len(s) : s[i] \in Digits

\* _NUMERIC_TW = re.compile(r"^\d{3,6}$"), used with .match on a stripped token
NUMERIC_TW(s) == Len(s) >= 3 /\ Len(s) <= 6 /\ AllDigits(s)

TW_SUFFIX == <<".", "T", "W">>

(***************************************************************************)
(* utils.py normalize_symbols: the loop over raw with its seen set and     *)
(* result list.                                                            *)
(***************************************************************************)
RECURSIVE normalize_loop(_, _, _, _)
normalize_loop(raw, auto_tw, seen, result) ==
    IF raw = <<>> THEN result
    ELSE LET s  == strip(Head(raw))
             s2 == IF auto_tw /\ NUMERIC_TW(s) THEN s \o TW_SUFFIX ELSE s
         IN  IF s = <<>> THEN normalize_loop(Tail(raw), auto_tw, seen, result)
             ELSE IF s2 \notin seen
                  THEN normalize_loop(Tail(raw), auto_tw, seen \cup {s2}, Append(result, s2))
                  ELSE normalize_loop(Tail(raw), auto_tw, seen, result)

\* a version that tests membership in seen before the suffix is appended
normalize_symbols_dedup_first(raw, auto_tw) ==
    LET RECURSIVE loop(_, _, _)
        loop(r, seen, result) ==
            IF r = <<>> THEN result
            ELSE LET s  == strip(Head(r))
                     s2 == IF auto_tw /\ NUMERIC_TW(s) THEN s \o TW_SUFFIX ELSE s
                 IN  IF s = <<>> THEN loop(Tail(r), seen, result)
                     ELSE IF s \notin seen
                          THEN loop(Tail(r), seen \cup {s}, Append(result, s2))
                          ELSE loop(Tail(r), seen, result)
    IN  loop(raw, {}, <<>>)

normalize_symbols(raw, auto_tw) == normalize_loop(raw, auto_tw, {}, <<>>)

\* The raw tokens tried: "2330", "AAPL", " 2330 ", "", " ", "23", "1234567",
\* "2330.TW", "23A0", "233".
Tokens ==
    { <<"2", "3", "3", "0">>,
      <<"A", "A", "P", "L">>,
      <<" ", "2", "3", "3", "0", " ">>,
      <<>>,
      <<" ">>,
      <<"2", "3">>,
      <<"1", "2", "3", "4", "5", "6", "7">>,
      <<"2", "3", "3", "0", ".", "T", "W">>,
      <<"2", "3", "A", "0">>,
      <<"2", "3", "3">> }

SeqsUpTo(S, n) == UNION { [1..k -> S] : k \in 0..n }

\* symbols = normalize_symbols(args.symbols)
NormCall ==
    /\ nPc = "raw"
    /\ nOut' = normalize_symbols(nRaw, TRUE)
    /\ nPc' = "once"
    /\ UNCHANGED <<nRaw, nTwice>>
    /\ UNCHANGED <<mainVars, collectVars, mergeVars, fileVars, writerVars, retryVars>>

\* normalize_symbols applied to its own result
NormAgain ==
    /\ nPc = "once"
    /\ nTwice' = normalize_symbols(nOut, TRUE)
    /\ nPc' = "twice"
    /\ UNCHANGED <<nRaw, nOut>>
    /\ UNCHANGED <<mainVars, collectVars, mergeVars, fileVars, writerVars, retryVars>>

(***************************************************************************)
(* Dates.  A date string is text; a date is a record [y, m, d].            *)
(***************************************************************************)
DigitChars == <<"0", "1", "2", "3", "4", "5", "6", "7", "8", "9">>
DigitVal(c) == CHOOSE n \in 0..9 : DigitChars[n + 1] = c

RECURSIVE ParseInt(_)
ParseInt(s) == IF s = <<>> THEN 0 ELSE 10 * ParseInt(SubSeq(s, 1, Len(s) - 1)) + DigitVal(s[Len(s)])

\* str.split(sep): the pieces of s between the occurrences of sep
RECURSIVE split(_, _)
split(s, sep) ==
    IF \A i \in 1..Len(s) : s[i] # sep THEN <<s>>
    ELSE LET k == CHOOSE i \in 1..Len(s) : s[i] = sep /\ \A j \in 1..(i - 1) : s[j] # sep
         IN  <<SubSeq(s, 1, k - 1)>> \o split(SubSeq(s, k + 1, Len(s)), sep)

IsLeap(y) == (y % 4 = 0 /\ y % 100 # 0) \/ y % 400 = 0
DaysInMonth(y, m) ==
    IF m = 2 THEN (IF IsLeap(y) THEN 29 ELSE 28)
    ELSE IF m \in {4, 6, 9, 11} THEN 30 ELSE 31

RECURSIVE DaysBeforeMonth(_, _)
DaysBeforeMonth(y, m) == IF m = 1 THEN 0 ELSE DaysBeforeMonth(y, m - 1) + DaysInMonth(y, m - 1)

\* date.toordinal(): 0001-01-01 is day 1
toordinal(date) ==
    LET y1 == date.y - 1
    IN  y1 * 365 + (y1 \div 4) - (y1 \div 100) + (y1 \div 400)
          + DaysBeforeMonth(date.y, date.m) + date.d

\* date.weekday(): Monday is 0, Sunday is 6
weekday(date) == (toordinal(date) + 6) % 7

DateLess(a, b) == toordinal(a) < toordinal(b)

\* date + timedelta(days=1)
NextDay(date) ==
    IF date.d < DaysInMonth(date.y, date.m) THEN [date EXCEPT !.d = date.d + 1]
    ELSE IF date.m < 12 THEN [y |-> date.y, m |-> date.m + 1, d |-> 1]
    ELSE [y |-> date.y + 1, m |-> 1, d |-> 1]

RECURSIVE AddDays(_, _)
AddDays(date, i) == IF i <= 0 THEN date ELSE AddDays(NextDay(date), i - 1)

\* utils.py parse_date: datetime.strptime(date_str, "%Y-%m-%d").date(); ok = FALSE is
\* the ValueError of strptime
parse_date(date_str) ==
    LET parts == split(date_str, "-")
        wellFormed ==
            /\ Len(parts) = 3
            /\ \A i \in 1..3 : parts[i] # <<>> /\ AllDigits(parts[i])
            /\ Len(parts[1]) = 4
            /\ Len(parts[2]) \in {1, 2}
            /\ Len(parts[3]) \in {1, 2}
    IN  IF wellFormed
        THEN LET y == ParseInt(parts[1])
                 m == ParseInt(parts[2])
                 d == ParseInt(parts[3])
             IN  IF y >= 1 /\ m \in 1..12 /\ d >= 1 /\ d <= DaysInMonth(y, m)
                 THEN [ok |-> TRUE, date |-> [y |-> y, m |-> m, d |-> d]]
                 ELSE [ok |-> FALSE]
        ELSE [ok |-> FALSE]

Pad2(n) == <<DigitChars[((n \div 10) % 10) + 1], DigitChars[(n % 10) + 1]>>
Pad4(n) == Pad2(n \div 100) \o Pad2(n % 100)

LATEST == <<"l", "a", "t", "e", "s", "t">>

\* a date format with the day before the month
format_date_day_first(d) ==
    IF d = None THEN LATEST ELSE Pad4(d.y) \o Pad2(d.d) \o Pad2(d.m)

\* utils.py format_date_for_filename: d.strftime("%Y%m%d") if d else "latest"
format_date_for_filename(d) ==
    IF d = None THEN LATEST ELSE Pad4(d.y) \o Pad2(d.m) \o Pad2(d.d)

\* writer.py generate_filename
generate_filename(symbol, s, e, ext) ==
    symbol \o <<"_">> \o format_date_for_filename(s) \o <<"_">>
           \o format_date_for_filename(e) \o <<".">> \o ext

CSV == <<"c", "s", "v">>

(***************************************************************************)
(* cli.py: the licensing policy.                                           *)
(***************************************************************************)
Providers == {"yahoo", "twse"}
UseCases == {"private_research", "redistribute", "commercial"}

\* _LICENCE_MATRIX
LICENCE_MATRIX ==
    [k \in Providers \X UseCases |->
        CASE k = <<"yahoo", "private_research">> -> TRUE
          [] k = <<"yahoo", "redistribute">>     -> TRUE
          [] k = <<"yahoo", "commercial">>       -> TRUE
          [] k = <<"twse", "private_research">>  -> TRUE
          [] k = <<"twse", "redistribute">>      -> FALSE
          [] k = <<"twse", "commercial">>        -> FALSE]

\* a check that lets every combination through
check_license_permissive(provider, use_case) == TRUE

\* check_license: TRUE when it returns, FALSE when it raises LicenseError
check_license(provider, use_case) ==
    IF <<provider, use_case>> \in DOMAIN LICENCE_MATRIX
    THEN LICENCE_MATRIX[<<provider, use_case>>]
    ELSE FALSE

(***************************************************************************)
(* cli.py main: the command-line arguments tried.                          *)
(***************************************************************************)
T_2330 == <<"2", "3", "3", "0">>
T_2317 == <<"2", "3", "1", "7">>
T_AAPL == <<"A", "A", "P", "L">>
S_2330_TW == T_2330 \o TW_SUFFIX

D_2025_01_02 == <<"2", "0", "2", "5", "-", "0", "1", "-", "0", "2">>
D_2025_01_03 == <<"2", "0", "2", "5", "-", "0", "1", "-", "0", "3">>
D_2025_01_05 == <<"2", "0", "2", "5", "-", "0", "1", "-", "0", "5">>
D_2025_02_30 == <<"2", "0", "2", "5", "-", "0", "2", "-", "3", "0">>
D_garbage    == <<"0", "3", "/", "0", "1">>

ArgSymbols == { <<T_2330, T_AAPL>>, <<T_2330, T_2330>>, <<<<" ">>, <<>>>> }
ArgStart   == { D_2025_01_03, D_2025_02_30, D_garbage }
\* --end-date is optional: None when the flag is absent; "" is an empty value
ArgEnd     == { None, Text(<<>>), Text(D_2025_01_03), Text(D_2025_01_05),
                Text(D_2025_01_02), Text(D_garbage) }
\* dt.date.today() on the day of the run
Todays     == { [y |-> 2025, m |-> 1, d |-> 4], [y |-> 2025, m |-> 1, d |-> 2] }

\* The arguments that decide which calls main makes.  interval, columns,
\* no_auto_adjust, repair, progress and show_summary are passed through or
\* only printed; file_format has the single choice "csv".
ArgSpace ==
    [symbols : ArgSymbols, start_date : ArgStart, end_date : ArgEnd,
     provider : Providers, intended_use : UseCases,
     twse_t86 : BOOLEAN, twse_daytrade : BOOLEAN, merge_twse : BOOLEAN]

\* bool(args.end_date): None and "" are both false
Truthy(x) == x # None /\ x.text # <<>>

\* a validation that forgets the end-before-start test
validate_no_order(a) ==
    LET syms == normalize_symbols(a.symbols, TRUE)
        ps   == parse_date(a.start_date)
        pe   == IF Truthy(a.end_date) THEN parse_date(a.end_date.text) ELSE [ok |-> TRUE, date |-> None]
    IN  IF syms = <<>> \/ ~ps.ok \/ ~pe.ok
        THEN [ok |-> FALSE]
        ELSE [ok |-> TRUE, symbols |-> syms, start |-> ps.date, end |-> pe.date]

\* main, the first try block: ok = FALSE is ValidationError or ValueError (return 2)
validate(a) ==
    LET syms == normalize_symbols(a.symbols, TRUE)
        ps   == parse_date(a.start_date)
        pe   == IF Truthy(a.end_date) THEN parse_date(a.end_date.text) ELSE [ok |-> TRUE, date |-> None]
    IN  IF syms = <<>> THEN [ok |-> FALSE]
        ELSE IF ~ps.ok THEN [ok |-> FALSE]
        ELSE IF ~pe.ok THEN [ok |-> FALSE]
        ELSE IF pe.date # None /\ DateLess(pe.date, ps.date) THEN [ok |-> FALSE]
        ELSE [ok |-> TRUE, symbols |-> syms, start |-> ps.date, end |-> pe.date]

Range(f) == { f[i] : i \in DOMAIN f }

\* main lines 89-102
MainValidate ==
    /\ pc = "validate"
    /\ LET v == validate(args)
       IN  IF v.ok
           THEN /\ symbols' = v.symbols
                /\ start' = v.start
                /\ end' = v.end
                /\ pc' = "license"
                /\ UNCHANGED exitCode
           ELSE /\ exitCode' = <<2>>
                /\ pc' = "exited"
                /\ UNCHANGED <<symbols, start, end>>
    /\ UNCHANGED <<args, calls, data, written, date_range, t86_df, daytrade_df,
                   mergeIdx, merged_written>>
    /\ UNCHANGED <<normVars, collectVars, mergeVars, fileVars, writerVars, retryVars>>

\* main lines 104-108
MainLicense ==
    /\ pc = "license"
    /\ calls' = Append(calls, "check_license")
    /\ IF check_license(args.provider, args.intended_use)
       THEN pc' = "fetch" /\ UNCHANGED exitCode
       ELSE pc' = "exited" /\ exitCode' = <<5>>
    /\ UNCHANGED <<args, symbols, start, end, data, written, date_range, t86_df,
                   daytrade_df, mergeIdx, merged_written>>
    /\ UNCHANGED <<normVars, collectVars, mergeVars, fileVars, writerVars, retryVars>>

\* The fetched frame: its columns are two-level (symbol, field) or single-level
\* (field); level0 holds the symbols of the first level.
FetchedFrames ==
    { [multi |-> TRUE, level0 |-> S] : S \in (SUBSET Range(symbols)) \ {{}} }
      \cup { [multi |-> FALSE, level0 |-> {}] }

\* main lines 110-127: fetch_history and select_columns, DownloadError or any other
\* exception gives 3
MainFetch ==
    /\ pc = "fetch"
    /\ calls' = Append(calls, "fetch_history")
    /\ \/ /\ data' \in FetchedFrames
          /\ pc' = "write"
          /\ UNCHANGED exitCode
       \/ /\ exitCode' = <<3>>
          /\ pc' = "exited"
          /\ UNCHANGED data
    /\ UNCHANGED <<args, symbols, start, end, written, date_range, t86_df,
                   daytrade_df, mergeIdx, merged_written>>
    /\ UNCHANGED <<normVars, collectVars, mergeVars, fileVars, writerVars, retryVars>>

\* writer.py write_symbol_frames, without a write failure: the files written
write_symbol_frames(df, syms, s, e, file_format) ==
    LET Present(sym) == ~df.multi \/ sym \in df.level0
        kept == SelectSeq(syms, Present)
    IN  [i \in 1..Len(kept) |-> generate_filename(kept[i], s, e, file_format)]

\* main lines 129-144: OutputError or any other exception gives 4
MainWrite ==
    /\ pc = "write"
    /\ calls' = Append(calls, "write_symbol_frames")
    /\ \/ /\ written' = write_symbol_frames(data, symbols, start, end, CSV)
          /\ pc' = "range"
          /\ UNCHANGED exitCode
       \/ /\ exitCode' = <<4>>
          /\ pc' = "exited"
          /\ UNCHANGED written
    /\ UNCHANGED <<args, symbols, start, end, data, date_range, t86_df,
                   daytrade_df, mergeIdx, merged_written>>
    /\ UNCHANGED <<normVars, collectVars, mergeVars, fileVars, writerVars, retryVars>>

\* [start + dt.timedelta(days=i) for i in range(n_days)]
DateList(s, n_days) == [i \in 1..(IF n_days > 0 THEN n_days ELSE 0) |-> AddDays(s, i - 1)]

\* main lines 146-156
MainDateRange ==
    /\ pc = "range"
    /\ IF args.twse_t86 \/ args.twse_daytrade \/ args.merge_twse
       THEN IF end # None
            THEN date_range' = DateList(start, toordinal(end) - toordinal(start) + 1)
            ELSE \E today \in Todays :
                    date_range' = DateList(start, toordinal(today) - toordinal(start) + 1)
       ELSE date_range' = <<>>
    /\ pc' = "t86"
    /\ UNCHANGED <<args, exitCode, calls, symbols, start, end, data, written, t86_df,
                   daytrade_df, mergeIdx, merged_written>>
    /\ UNCHANGED <<normVars, collectVars, mergeVars, fileVars, writerVars, retryVars>>

\* What a collector hands back to main: an empty frame, a frame with rows, or an
\* exception out of its numeric conversion.  No date gives the empty frame.
CollectOutcomes(dates) == IF dates = <<>> THEN {"empty"} ELSE {"empty", "rows", "raised"}

\* main lines 157-160
MainCollectT86 ==
    /\ pc = "t86"
    /\ IF args.twse_t86
       THEN /\ calls' = Append(calls, "collect_t86")
            /\ \E o \in CollectOutcomes(date_range) :
                 IF o = "raised"
                 THEN pc' = "crashed" /\ UNCHANGED t86_df
                 ELSE pc' = "daytrade" /\ t86_df' = [frame |-> o]
       ELSE /\ pc' = "daytrade"
            /\ UNCHANGED <<calls, t86_df>>
    /\ UNCHANGED <<args, exitCode, symbols, start, end, data, written, date_range,
                   daytrade_df, mergeIdx, merged_written>>
    /\ UNCHANGED <<normVars, collectVars, mergeVars, fileVars, writerVars, retryVars>>

\* main lines 161-162
MainCollectDaytrade ==
    /\ pc = "daytrade"
    /\ IF args.twse_daytrade
       THEN /\ calls' = Append(calls, "collect_daytrade")
            /\ \E o \in CollectOutcomes(date_range) :
                 IF o = "raised"
                 THEN pc' = "crashed" /\ UNCHANGED daytrade_df
                 ELSE pc' = "merge" /\ daytrade_df' = [frame |-> o]
       ELSE /\ pc' = "merge"
            /\ UNCHANGED <<calls, daytrade_df>>
    /\ mergeIdx' = 1
    /\ UNCHANGED <<args, exitCode, symbols, start, end, data, written, date_range,
                   t86_df, merged_written>>
    /\ UNCHANGED <<normVars, collectVars, mergeVars, fileVars, writerVars, retryVars>>

\* an infix without the source tag
MERGED_ONLY == <<"_", "M", "E", "R", "G", "E", "D", "_">>

TWSE_MERGED == <<"_", "T", "W", "S", "E", "_", "M", "E", "R", "G", "E", "D", "_">>

\* main line 181
merged_filename(symbol, s, e) ==
    symbol \o TWSE_MERGED \o format_date_for_filename(s) \o <<"_">>
           \o format_date_for_filename(e) \o <<".">> \o CSV

\* main lines 168-183, one iteration of the loop over symbols.  The price file
\* exists when this run wrote it or an earlier run left it; pd.read_csv with
\* parse_dates=["Date"] raises when the file has no Date column.
MainMergeSymbol ==
    /\ pc = "merge"
    /\ args.merge_twse /\ (args.twse_t86 \/ args.twse_daytrade)
    /\ mergeIdx <= Len(symbols)
    /\ LET symbol == symbols[mergeIdx]
           symbol_csv == generate_filename(symbol, start, end, CSV)
       IN  \E left_by_earlier_run \in BOOLEAN, has_date_column \in BOOLEAN :
             IF ~(symbol_csv \in Range(written) \/ left_by_earlier_run)
             THEN /\ mergeIdx' = mergeIdx + 1
                  /\ UNCHANGED <<pc, calls, merged_written>>
             ELSE IF ~has_date_column
             THEN /\ pc' = "crashed"
                  /\ UNCHANGED <<mergeIdx, calls, merged_written>>
             ELSE /\ calls' = Append(calls, "merge_price_institution_daytrade")
                  /\ merged_written' = Append(merged_written, merged_filename(symbol, start, end))
                  /\ mergeIdx' = mergeIdx + 1
                  /\ UNCHANGED pc
    /\ UNCHANGED <<args, exitCode, symbols, start, end, data, written, date_range,
                   t86_df, daytrade_df>>
    /\ UNCHANGED <<normVars, collectVars, mergeVars, fileVars, writerVars, retryVars>>

\* main lines 185-200
MainReturn ==
    /\ pc = "merge"
    /\ ~(args.merge_twse /\ (args.twse_t86 \/ args.twse_daytrade)) \/ mergeIdx > Len(symbols)
    /\ exitCode' = <<0>>
    /\ pc' = "exited"
    /\ UNCHANGED <<args, calls, symbols, start, end, data, written, date_range,
                   t86_df, daytrade_df, mergeIdx, merged_written>>
    /\ UNCHANGED <<normVars, collectVars, mergeVars, fileVars, writerVars, retryVars>>

MainNext ==
    \/ MainValidate
    \/ MainLicense
    \/ MainFetch
    \/ MainWrite
    \/ MainDateRange
    \/ MainCollectT86
    \/ MainCollectDaytrade
    \/ MainMergeSymbol
    \/ MainReturn

(***************************************************************************)
(* twse_api.py and the collectors.  A response page is a sequence of rows  *)
(* [code, cell]: cell is the raw text of one numeric column (foreign_net   *)
(* for T86, daytrade_volume for day trade, net_value for BFI82U).          *)
(***************************************************************************)
C_1234  == <<"1", ",", "2", "3", "4">>      \* "1,234"
C_12    == <<"1", "2">>                     \* "12"
C_NA    == <<"N", "/", "A">>                \* "N/A"
C_12_5  == <<"1", "2", ".", "5">>           \* "12.5"
RawCells == {C_1234, C_12, C_NA, C_12_5}

Pages == {<<>>} \cup { <<[code |-> T_2330, cell |-> c]>> : c \in RawCells }

\* What one GET of the JSON endpoint comes to, all attempts taken together.
Responses ==
    {[stat |-> "request_error"], [stat |-> "non_ok"]} \cup { [stat |-> "OK", data |-> p] : p \in Pages }

\* _get_json: None after a failed request or a stat other than OK, else the page
get_json(response) == IF response.stat # "OK" THEN None ELSE response

\* fetch_t86_single, and fetch_bfi82u_single which has the same body:
\* None, or the frame with its date column
fetch_t86_single(date, response) ==
    LET js == get_json(response)
    IN  IF js = None THEN None
        ELSE IF js.data = <<>> THEN None
        ELSE [date |-> date, rows |-> js.data]

\* What the CSV fallback of fetch_daytrade_single comes to.
CsvResponses == {[raise |-> TRUE]} \cup { [data |-> p] : p \in Pages }

\* fetch_daytrade_single
fetch_daytrade_single(date, response, csv) ==
    IF weekday(date) >= 5 THEN None
    ELSE LET js == get_json(response)
             df == IF js # None /\ js.data # <<>> THEN [rows |-> js.data] ELSE None
         IN  IF df = None
             THEN IF csv = [raise |-> TRUE] THEN None
                  ELSE IF csv.data = <<>> THEN None
                  ELSE [date |-> date, rows |-> csv.data]
             ELSE [date |-> date, rows |-> df.rows]

Kinds == {"t86", "daytrade", "bfi82u"}

\* pd.concat(frames, ignore_index=True): the rows of the frames in order, each
\* with its frame's date
RECURSIVE concat(_)
concat(frames) ==
    IF frames = <<>> THEN <<>>
    ELSE [i \in 1..Len(Head(frames).rows) |->
            [date |-> Head(frames).date,
             code |-> Head(frames).rows[i].code,
             cell |-> Head(frames).rows[i].cell]]
         \o concat(Tail(frames))

\* str.replace(",", "", regex=False)
RECURSIVE remove_commas(_)
remove_commas(s) ==
    IF s = <<>> THEN <<>>
    ELSE IF Head(s) = "," THEN remove_commas(Tail(s))
    ELSE <<Head(s)>> \o remove_commas(Tail(s))

\* pd.to_numeric(..., errors="coerce") of one cell: an integer, a float with a
\* fraction, or NaN
to_numeric(s) ==
    LET parts == split(s, ".")
    IN  IF s # <<>> /\ AllDigits(s) THEN [kind |-> "int", n |-> ParseInt(s)]
        ELSE IF /\ Len(parts) = 2
                /\ parts[1] # <<>> /\ AllDigits(parts[1])
                /\ AllDigits(parts[2])
             THEN [kind |-> "float", n |-> ParseInt(parts[1]), frac |-> parts[2]]
        ELSE [kind |-> "nan"]

\* .astype("Int64") of a float64 value: NaN becomes <NA>, an integral float its
\* integer, a float with a fraction raises TypeError
astype_Int64(v) ==
    IF v.kind = "int" THEN [ok |-> TRUE, value |-> <<v.n>>]
    ELSE IF v.kind = "nan" THEN [ok |-> TRUE, value |-> <<>>]
    ELSE IF \A i \in 1..Len(v.frac) : v.frac[i] = "0" THEN [ok |-> TRUE, value |-> <<v.n>>]
    ELSE [ok |-> FALSE]

\* collect_t86 lines 69-72, collect_daytrade lines 47-50, for one cell
coerce_numeric(cell) == astype_Int64(to_numeric(remove_commas(cell)))

\* collect_bfi82u line 94, for one cell: the text goes to Int64 without to_numeric;
\* text that is not an integer raises
coerce_bfi82u(cell) ==
    LET s == remove_commas(cell)
    IN  IF s # <<>> /\ AllDigits(s) THEN [ok |-> TRUE, value |-> <<ParseInt(s)>>]
        ELSE [ok |-> FALSE]

coerce(kind, cell) == IF kind = "bfi82u" THEN coerce_bfi82u(cell) ELSE coerce_numeric(cell)

\* pd.DataFrame()
EmptyFrame == [cols |-> <<>>, rows |-> <<>>]

CollectStarts == { [y |-> 2025, m |-> 1, d |-> 2], [y |-> 2025, m |-> 1, d |-> 3] }

\* the fetch of one date by the collector of the given kind
fetch_single(kind, date, response, csv) ==
    IF kind = "daytrade" THEN fetch_daytrade_single(date, response, csv)
    ELSE fetch_t86_single(date, response)

\* a loop that gives up at the first date without data
CollectDateAbort ==
    /\ cPc = "loop"
    /\ cIdx <= Len(cDates)
    /\ \E response \in Responses, csv \in CsvResponses :
         LET d  == cDates[cIdx]
             df == fetch_single(cKind, d, response, csv)
         IN  /\ cVisited' = Append(cVisited, d)
             /\ IF df # None
                THEN /\ cFrames' = Append(cFrames, df)
                     /\ cIdx' = cIdx + 1
                     /\ UNCHANGED cMissing
                ELSE /\ cMissing' = Append(cMissing, d)
                     /\ cIdx' = Len(cDates) + 1
                     /\ UNCHANGED cFrames
    /\ UNCHANGED <<cKind, cDates, cConcat, cResult, cPc>>
    /\ UNCHANGED <<normVars, mainVars, mergeVars, fileVars, writerVars, retryVars>>

\* collect_t86 lines 46-51, collect_daytrade lines 23-28, collect_bfi82u lines
\* 83-86 (which keeps no missing list): one iteration of the loop over dates
CollectDate ==
    /\ cPc = "loop"
    /\ cIdx <= Len(cDates)
    /\ \E response \in Responses, csv \in CsvResponses :
         LET d  == cDates[cIdx]
             df == fetch_single(cKind, d, response, csv)
         IN  /\ cVisited' = Append(cVisited, d)
             /\ IF df # None
                THEN /\ cFrames' = Append(cFrames, df)
                     /\ UNCHANGED cMissing
                ELSE /\ cMissing' = IF cKind = "bfi82u" THEN cMissing ELSE Append(cMissing, d)
                     /\ UNCHANGED cFrames
    /\ cIdx' = cIdx + 1
    /\ UNCHANGED <<cKind, cDates, cConcat, cResult, cPc>>
    /\ UNCHANGED <<normVars, mainVars, mergeVars, fileVars, writerVars, retryVars>>

\* The numeric column after conversion, or [raised |-> TRUE] when a cell makes astype raise.
converted(kind, rows) ==
    IF \E i \in 1..Len(rows) : ~coerce(kind, rows[i].cell).ok
    THEN [raised |-> TRUE]
    ELSE [cols |-> <<"code", "value", "date">>,
          rows |-> [i \in 1..Len(rows) |->
                      [date |-> rows[i].date, code |-> rows[i].code,
                       value |-> coerce(kind, rows[i].cell).value]]]

\* collect_t86 lines 52-73, collect_daytrade lines 29-60, collect_bfi82u lines
\* 87-95: after the loop
CollectFinish ==
    /\ cPc = "loop"
    /\ cIdx > Len(cDates)
    /\ IF cFrames = <<>>
       THEN /\ cResult' = EmptyFrame
            /\ UNCHANGED cConcat
       ELSE /\ cConcat' = [rows |-> concat(cFrames)]
            /\ cResult' = converted(cKind, concat(cFrames))
    /\ cPc' = "done"
    /\ UNCHANGED <<cKind, cDates, cIdx, cVisited, cFrames, cMissing>>
    /\ UNCHANGED <<normVars, mainVars, mergeVars, fileVars, writerVars, retryVars>>

CollectNext ==
    \/ CollectDate
    \/ CollectFinish

(***************************************************************************)
(* merger.py.  A frame is [cols, rows]: cols the column names in order and *)
(* rows a sequence of records over them.  A price frame also says what its *)
(* index is ("datetime" or "range"), and its rows carry the index value.   *)
(* Dates are day numbers <<d>>.  Header names that hold the code marker of *)
(* the TWSE headers are written zh_code.                                   *)
(***************************************************************************)
Null == <<>>
Raised == [raised |-> TRUE]

Dates == {<<1>>, <<2>>}
Volumes == {Null, <<0>>, <<1000>>}
C_2330_padded == <<" ", "2", "3", "3", "0", " ">>
N_TSMC == <<"T", "S", "M", "C">>

\* The rows of a price frame: one per chosen date, in date order.
PriceRowSets(vols) ==
    UNION { [S -> vols] : S \in SUBSET Dates }

RECURSIVE SortedDates(_)
SortedDates(S) ==
    IF S = {} THEN <<>>
    ELSE LET m == CHOOSE x \in S : \A y \in S : x[1] <= y[1]
         IN  <<m>> \o SortedDates(S \ {m})

PriceRows(f, withClose) ==
    LET ds == SortedDates(DOMAIN f)
    IN  [i \in 1..Len(ds) |->
            IF withClose
            THEN [index |-> <<i>>, Date |-> ds[i], Close |-> <<10>>]
            ELSE [index |-> <<i>>, Date |-> ds[i], Volume |-> f[ds[i]]]]

IndexedRows(f) ==
    LET ds == SortedDates(DOMAIN f)
    IN  [i \in 1..Len(ds) |-> [index |-> ds[i], Volume |-> f[ds[i]]]]

\* Price frames: as pd.read_csv gives them in main (a Date column, with or
\* without a Volume column), as fetch_history gives them (dates in the index), and
\* one with no date anywhere.
PriceFrames ==
    { [cols |-> <<"Date", "Volume">>, index |-> "range", rows |-> PriceRows(f, FALSE)] :
          f \in PriceRowSets(Volumes) }
    \cup { [cols |-> <<"Date", "Close">>, index |-> "range", rows |-> PriceRows(f, TRUE)] :
          f \in PriceRowSets({<<1000>>}) }
    \cup { [cols |-> <<"Volume">>, index |-> "datetime", rows |-> IndexedRows(f)] :
          f \in PriceRowSets({<<1000>>}) }
    \cup { [cols |-> <<"Volume">>, index |-> "range",
             rows |-> [i \in 1..Len(IndexedRows(f)) |-> [IndexedRows(f)[i] EXCEPT !.index = <<i>>]]] :
          f \in PriceRowSets({<<1000>>}) }

\* Auxiliary frames as the collectors build them: every frame with rows has the
\* date column (twse_api.py sets df["date"]), a name column and one value column;
\* its code column is named code, or has a header that is no code header (sid).
InstRows == [code : {C_2330_padded, T_2317}, name : {N_TSMC}, foreign_net : {<<200>>}, date : Dates]
InstRowsNoCode == [sid : {T_2330}, name : {N_TSMC}, foreign_net : {<<200>>}, date : Dates]
DtRows == [code : {C_2330_padded, T_2317}, name : {N_TSMC}, daytrade_volume : {<<150>>}, date : Dates]
DtRowsNoCode == [sid : {T_2330}, name : {N_TSMC}, daytrade_volume : {<<150>>}, date : Dates]

INST_COLS == <<"code", "name", "foreign_net", "date">>
INST_COLS_NO_CODE == <<"sid", "name", "foreign_net", "date">>
DT_COLS == <<"code", "name", "daytrade_volume", "date">>
DT_COLS_NO_CODE == <<"sid", "name", "daytrade_volume", "date">>

SeqsFromTo(S, lo, hi) == UNION { [1..k -> S] : k \in lo..hi }

\* None, pd.DataFrame(), a frame with columns and no row, and frames with rows
InstFrames ==
    {None, EmptyFrame, [cols |-> INST_COLS, rows |-> <<>>]}
    \cup { [cols |-> INST_COLS, rows |-> r] : r \in SeqsFromTo(InstRows, 1, MaxInstRows) }
    \cup { [cols |-> INST_COLS_NO_CODE, rows |-> r] : r \in SeqsFromTo(InstRowsNoCode, 1, MaxInstRows) }

DtFrames ==
    {None, EmptyFrame, [cols |-> DT_COLS, rows |-> <<>>]}
    \cup { [cols |-> DT_COLS, rows |-> r] : r \in SeqsFromTo(DtRows, 1, MaxDtRows) }
    \cup { [cols |-> DT_COLS_NO_CODE, rows |-> r] : r \in SeqsFromTo(DtRowsNoCode, 1, MaxDtRows) }

MergeSymbols == {S_2330_TW, T_2330, T_AAPL}

\* _strip_symbol_suffix: str(symbol).split('.')[0].strip()
strip_symbol_suffix(symbol) == strip(split(symbol, ".")[1])

\* DataFrame.empty: an axis of length 0
df_empty(df) == Len(df.rows) = 0 \/ Len(df.cols) = 0

\* a test that takes every frame that is not None
provided_not_none(aux) == aux # None

\* merger.py lines 34 and 54: "is not None and not .empty"
provided(aux) == aux # None /\ ~df_empty(aux)

\* merger.py lines 20-29: the frame with its Date column, or the ValueError
locate_date(price, date_col) ==
    IF \E i \in 1..Len(price.cols) : price.cols[i] = date_col
    THEN [ok |-> TRUE,
          df |-> [cols |-> price.cols,
                  rows |-> [i \in 1..Len(price.rows) |->
                              [c \in Range(price.cols) |-> price.rows[i][c]]]]]
    ELSE IF price.index = "datetime"
    THEN [ok |-> TRUE,
          df |-> [cols |-> Append(price.cols, date_col),
                  rows |-> [i \in 1..Len(price.rows) |->
                              [c \in Range(price.cols) \cup {date_col} |->
                                  IF c = date_col THEN price.rows[i].index
                                  ELSE price.rows[i][c]]]]]
    ELSE [ok |-> FALSE]

\* the headers taken for a code column: lines 36 and 55
INST_CODE_HEADERS == {"code", "zh_code"}
DT_CODE_HEADERS == {"code", "code_dt", "zh_code"}

\* a filter that keeps the whole frame when no code column is found
filter_by_code_keep_all(aux, headers, code_numeric) ==
    LET possible == SelectSeq(aux.cols, LAMBDA c : c \in headers)
    IN  IF possible # <<>>
        THEN [cols |-> aux.cols,
              rows |-> SelectSeq(aux.rows, LAMBDA r : strip(r[possible[1]]) = code_numeric)]
        ELSE aux

\* lines 36-42 and 55-61: the rows of the bare code, none when no code column
filter_by_code(aux, headers, code_numeric) ==
    LET possible == SelectSeq(aux.cols, LAMBDA c : c \in headers)
    IN  IF possible # <<>>
        THEN [cols |-> aux.cols,
              rows |-> SelectSeq(aux.rows, LAMBDA r : strip(r[possible[1]]) = code_numeric)]
        ELSE [cols |-> aux.cols, rows |-> <<>>]

\* column name + suffix, for the columns of the frames above
with_suffix(c, sfx) ==
    CASE c = "code" /\ sfx = "_inst"            -> "code_inst"
      [] c = "code" /\ sfx = "_dt"              -> "code_dt"
      [] c = "sid" /\ sfx = "_inst"             -> "sid_inst"
      [] c = "sid" /\ sfx = "_dt"               -> "sid_dt"
      [] c = "foreign_net" /\ sfx = "_inst"     -> "foreign_net_inst"
      [] c = "foreign_net" /\ sfx = "_dt"       -> "foreign_net_dt"
      [] c = "daytrade_volume" /\ sfx = "_inst" -> "daytrade_volume_inst"
      [] c = "daytrade_volume" /\ sfx = "_dt"   -> "daytrade_volume_dt"
      [] c = "date" /\ sfx = "_inst"            -> "date_inst"
      [] c = "date" /\ sfx = "_dt"              -> "date_dt"

\* The columns the right frame brings into a merge: <<name in the right frame,
\* name in the result>>, after drop(columns=["name"]) and the suffix on overlap.
right_columns(left, right, sfx) ==
    LET kept == SelectSeq(right.cols, LAMBDA c : c # "name")
    IN  [i \in 1..Len(kept) |->
            <<kept[i], IF kept[i] \in Range(left.cols) THEN with_suffix(kept[i], sfx) ELSE kept[i]>>]

RECURSIVE flatten(_)
flatten(ss) == IF ss = <<>> THEN <<>> ELSE Head(ss) \o flatten(Tail(ss))

\* The joined rows of one left row: one per matching right row, or one with nulls
\* when dropUnmatched is FALSE.
joined_rows(l, left, right, rc, left_on, right_on, dropUnmatched) ==
    LET matches == SelectSeq(right.rows, LAMBDA r : r[right_on] = l[left_on])
        names   == Range(left.cols) \cup { rc[k][2] : k \in 1..Len(rc) }
        from(c) == CHOOSE k \in 1..Len(rc) : rc[k][2] = c
        row(r, matched) ==
            [c \in names |->
                IF c \in Range(left.cols) THEN l[c]
                ELSE IF matched THEN r[rc[from(c)][1]] ELSE Null]
    IN  IF matches = <<>>
        THEN (IF dropUnmatched THEN <<>> ELSE <<row(l, FALSE)>>)
        ELSE [k \in 1..Len(matches) |-> row(matches[k], TRUE)]

\* .drop(columns=[name], errors="ignore") of a frame
drop_column(df, name) ==
    IF name \in Range(df.cols)
    THEN [cols |-> SelectSeq(df.cols, LAMBDA c : c # name),
          rows |-> [i \in 1..Len(df.rows) |->
                      [c \in Range(df.cols) \ {name} |-> df.rows[i][c]]]]
    ELSE df

merge_how(left, right, left_on, right_on, sfx, dropUnmatched) ==
    LET rc == right_columns(left, right, sfx)
    IN  [cols |-> left.cols \o [k \in 1..Len(rc) |-> rc[k][2]],
         rows |-> flatten([i \in 1..Len(left.rows) |->
                            joined_rows(left.rows[i], left, right, rc, left_on, right_on,
                                        dropUnmatched)])]

\* an inner join in place of the left join
merge_inner(left, right, left_on, right_on, sfx) ==
    merge_how(left, right, left_on, right_on, sfx, TRUE)

\* df.merge(right.drop(columns=["name"]), left_on=, right_on=, how="left",
\* suffixes=("", sfx)): lines 45-50 and 64-69
merge_left(left, right, left_on, right_on, sfx) ==
    merge_how(left, right, left_on, right_on, sfx, FALSE)

\* lines 34-51 and 54-70: one auxiliary frame joined onto the running frame
merge_aux(df, aux, headers, code_numeric, date_col, sfx) ==
    IF provided(aux)
    THEN drop_column(merge_left(df, filter_by_code(aux, headers, code_numeric),
                                date_col, "date", sfx), "date")
    ELSE df

\* str.lower() of a column name of the frames above
lower(c) ==
    CASE c = "Volume" -> "volume"
      [] c = "Date"   -> "date"
      [] c = "Close"  -> "close"
      [] OTHER        -> c

\* numerator / volume as pandas computes it elementwise: null when either side
\* is null, +inf or -inf for a non-zero numerator over zero, NaN for 0 / 0
divide(a, v) ==
    IF a = Null \/ v = Null THEN Null
    ELSE IF v[1] = 0
         THEN (IF a[1] > 0 THEN <<1, 0>> ELSE IF a[1] < 0 THEN <<-1, 0>> ELSE Null)
    ELSE <<a[1], v[1]>>

add_ratio(df, vol_col, num_col, ratio_col) ==
    [cols |-> Append(df.cols, ratio_col),
     rows |-> [i \in 1..Len(df.rows) |->
                 [c \in Range(df.cols) \cup {ratio_col} |->
                     IF c = ratio_col THEN divide(df.rows[i][num_col], df.rows[i][vol_col])
                     ELSE df.rows[i][c]]]]

\* lines 72-78: one ratio column
derive_ratio(df, num_col, ratio_col) ==
    LET candidates == SelectSeq(df.cols, LAMBDA c : lower(c) \in {"volume", "vol"})
    IN  IF /\ candidates # <<>>
           /\ num_col \in Range(df.cols)
           /\ \E i \in 1..Len(df.rows) : df.rows[i][candidates[1]] # Null
        THEN add_ratio(df, candidates[1], num_col, ratio_col)
        ELSE df

\* merge_price_institution_daytrade
merge_price_institution_daytrade(price, inst, daytrade, symbol, date_col) ==
    LET located == locate_date(price, date_col)
    IN  IF ~located.ok THEN Raised
        ELSE LET code_numeric == strip_symbol_suffix(symbol)
                 df1 == merge_aux(located.df, inst, INST_CODE_HEADERS, code_numeric, date_col, "_inst")
                 df2 == merge_aux(df1, daytrade, DT_CODE_HEADERS, code_numeric, date_col, "_dt")
                 df3 == derive_ratio(df2, "foreign_net", "foreign_net_ratio")
             IN  derive_ratio(df3, "daytrade_volume", "daytrade_volume_ratio")

\* the call of main line 174, date_col="Date"
MergeCall ==
    /\ mPc = "call"
    /\ mResult' = merge_price_institution_daytrade(price_df, inst_df, dt_df, mSymbol, "Date")
    /\ mPc' = "returned"
    /\ UNCHANGED <<price_df, inst_df, dt_df, mSymbol>>
    /\ UNCHANGED <<normVars, mainVars, collectVars, fileVars, writerVars, retryVars>>

(***************************************************************************)
(* writer.py generate_filename, called on its own arguments.               *)
(***************************************************************************)
FileSymbols == {S_2330_TW, T_AAPL, T_2317}
FileDates ==
    { [y |-> 2025, m |-> 1, d |-> 1], [y |-> 2025, m |-> 7, d |-> 18],
      [y |-> 1999, m |-> 12, d |-> 31], [y |-> 2024, m |-> 2, d |-> 29] }
FileEnds == FileDates \cup {None}
TXT == <<"t", "x", "t">>
FileExts == {CSV, TXT}

\* generate_filename(symbol, start, end, ext)
FilenameCall ==
    /\ fPc = "call"
    /\ fName' = generate_filename(fSymbol, fStart, fEnd, fExt)
    /\ fPc' = "again"
    /\ UNCHANGED <<fSymbol, fStart, fEnd, fExt, fAgain>>
    /\ UNCHANGED <<normVars, mainVars, collectVars, mergeVars, writerVars, retryVars>>

\* generate_filename on the same arguments a second time
FilenameAgain ==
    /\ fPc = "again"
    /\ fAgain' = generate_filename(fSymbol, fStart, fEnd, fExt)
    /\ fPc' = "done"
    /\ UNCHANGED <<fSymbol, fStart, fEnd, fExt, fName>>
    /\ UNCHANGED <<normVars, mainVars, collectVars, mergeVars, writerVars, retryVars>>

FilenameNext ==
    \/ FilenameCall
    \/ FilenameAgain

(***************************************************************************)
(* writer.py write_symbol_frames, one call.  A frame with two-level        *)
(* columns is [multi |-> TRUE, level0, cols]: level0 the values of         *)
(* df.columns.levels[0] and cols the symbols that head a column; a frame   *)
(* cut from a wider one keeps the wider one's levels, so cols is a subset  *)
(* of level0.  A frame with single-level columns is [multi |-> FALSE].     *)
(***************************************************************************)
WriterSymbols == {S_2330_TW, T_AAPL, T_2317}

WriterFrames ==
    { f \in [multi : {TRUE}, level0 : SUBSET WriterSymbols, cols : SUBSET WriterSymbols] :
        f.cols \subseteq f.level0 }
      \cup { [multi |-> FALSE, level0 |-> {}, cols |-> {}] }

WriterEnds == { None, [y |-> 2025, m |-> 7, d |-> 18] }

\* an exception out of write_symbol_frames
WriteError(kind) == [error |-> kind]

\* line 37: ensure_dir(output_dir); mkdir raises when the directory cannot be made
WriteEnsureDir ==
    /\ wPc = "ensure_dir"
    /\ \E made \in BOOLEAN :
         IF made
         THEN wPc' = "loop" /\ wIdx' = 1 /\ UNCHANGED wResult
         ELSE wPc' = "raised" /\ wResult' = WriteError("OSError") /\ UNCHANGED wIdx
    /\ UNCHANGED <<wDf, wSymbols, wStart, wEnd, wFormat, wWritten>>
    /\ UNCHANGED <<normVars, mainVars, collectVars, mergeVars, fileVars, retryVars>>

\* lines 40-57, one iteration of the loop over symbols: a symbol outside
\* levels[0] is skipped; df[sym] raises KeyError for a symbol that heads no
\* column; a format other than csv or a failed to_csv raises OutputError
WriteSymbol ==
    /\ wPc = "loop"
    /\ wIdx <= Len(wSymbols)
    /\ LET sym == wSymbols[wIdx]
       IN  IF wDf.multi /\ sym \notin wDf.level0
           THEN /\ wIdx' = wIdx + 1
                /\ UNCHANGED <<wWritten, wResult, wPc>>
           ELSE IF wDf.multi /\ sym \notin wDf.cols
           THEN /\ wResult' = WriteError("KeyError")
                /\ wPc' = "raised"
                /\ UNCHANGED <<wIdx, wWritten>>
           ELSE IF wFormat # CSV
           THEN /\ wResult' = WriteError("OutputError")
                /\ wPc' = "raised"
                /\ UNCHANGED <<wIdx, wWritten>>
           ELSE \E to_csv_ok \in BOOLEAN :
                  IF to_csv_ok
                  THEN /\ wWritten' = Append(wWritten, generate_filename(sym, wStart, wEnd, wFormat))
                       /\ wIdx' = wIdx + 1
                       /\ UNCHANGED <<wResult, wPc>>
                  ELSE /\ wResult' = WriteError("OutputError")
                       /\ wPc' = "raised"
                       /\ UNCHANGED <<wIdx, wWritten>>
    /\ UNCHANGED <<wDf, wSymbols, wStart, wEnd, wFormat>>
    /\ UNCHANGED <<normVars, mainVars, collectVars, mergeVars, fileVars, retryVars>>

\* line 58: return written
WriteReturn ==
    /\ wPc = "loop"
    /\ wIdx > Len(wSymbols)
    /\ wResult' = [files |-> wWritten]
    /\ wPc' = "returned"
    /\ UNCHANGED <<wDf, wSymbols, wStart, wEnd, wFormat, wIdx, wWritten>>
    /\ UNCHANGED <<normVars, mainVars, collectVars, mergeVars, fileVars, retryVars>>

WriterNext ==
    \/ WriteEnsureDir
    \/ WriteSymbol
    \/ WriteReturn

(***************************************************************************)
(* twse_api.py _get_json with its retries, inside one fetch_*_single of a  *)
(* collector.  gLog is what the call did, in order: the outcome of each    *)
(* GET ("request_error", "non_ok", "OK") and each time.sleep ("sleep").    *)
(***************************************************************************)
RetryKinds == {"t86", "daytrade"}
\* a Friday and a Saturday
RetryDates == { [y |-> 2025, m |-> 1, d |-> 3], [y |-> 2025, m |-> 1, d |-> 4] }

\* fetch_t86_single lines 44-45; fetch_daytrade_single lines 80-84, which
\* returns None on a weekend without a request
FetchBegin ==
    /\ gPc = "fetch"
    /\ IF gKind = "daytrade" /\ weekday(gDate) >= 5
       THEN gPc' = "fetched"
       ELSE gPc' = "attempt"
    /\ UNCHANGED <<gKind, gDate, gCsv, gRetry, gAttempt, gLog, gJs, gFetched, gMissing>>
    /\ UNCHANGED <<normVars, mainVars, collectVars, mergeVars, fileVars, writerVars>>

\* an attempt that sleeps after every failed request, the last one too
GetJsonAttemptSleepAlways ==
    /\ gPc = "attempt"
    /\ gAttempt <= gRetry
    /\ \E response \in Responses :
         IF response.stat = "request_error"
         THEN /\ gLog' = gLog \o <<"request_error", "sleep">>
              /\ gAttempt' = gAttempt + 1
              /\ UNCHANGED <<gJs, gPc>>
         ELSE /\ gLog' = Append(gLog, response.stat)
              /\ gJs' = get_json(response)
              /\ gPc' = "got"
              /\ UNCHANGED gAttempt
    /\ UNCHANGED <<gKind, gDate, gCsv, gRetry, gFetched, gMissing>>
    /\ UNCHANGED <<normVars, mainVars, collectVars, mergeVars, fileVars, writerVars>>

\* _get_json lines 23-35, one iteration of the loop over range(retry + 1): a
\* request that raises (requests.get, raise_for_status, r.json) is logged and
\* followed by time.sleep(retry_wait) when attempt < retry; a parsed response
\* ends the call, with None when its stat is not OK
GetJsonAttempt ==
    /\ gPc = "attempt"
    /\ gAttempt <= gRetry
    /\ \E response \in Responses :
         IF response.stat = "request_error"
         THEN /\ gLog' = gLog \o <<"request_error">>
                           \o (IF gAttempt < gRetry THEN <<"sleep">> ELSE <<>>)
              /\ gAttempt' = gAttempt + 1
              /\ UNCHANGED <<gJs, gPc>>
         ELSE /\ gLog' = Append(gLog, response.stat)
              /\ gJs' = get_json(response)
              /\ gPc' = "got"
              /\ UNCHANGED gAttempt
    /\ UNCHANGED <<gKind, gDate, gCsv, gRetry, gFetched, gMissing>>
    /\ UNCHANGED <<normVars, mainVars, collectVars, mergeVars, fileVars, writerVars>>

\* _get_json line 36: return None after the loop
GetJsonExhausted ==
    /\ gPc = "attempt"
    /\ gAttempt > gRetry
    /\ gJs' = None
    /\ gPc' = "got"
    /\ UNCHANGED <<gKind, gDate, gCsv, gRetry, gAttempt, gLog, gFetched, gMissing>>
    /\ UNCHANGED <<normVars, mainVars, collectVars, mergeVars, fileVars, writerVars>>

\* fetch_t86_single lines 46-52, fetch_daytrade_single lines 86-107: what the
\* fetch returns for the js that _get_json handed back
FetchEnd ==
    /\ gPc = "got"
    /\ gFetched' = fetch_single(gKind, gDate,
                                IF gJs = None THEN [stat |-> "request_error"] ELSE gJs, gCsv)
    /\ gPc' = "fetched"
    /\ UNCHANGED <<gKind, gDate, gCsv, gRetry, gAttempt, gLog, gJs, gMissing>>
    /\ UNCHANGED <<normVars, mainVars, collectVars, mergeVars, fileVars, writerVars>>

\* collect_t86 lines 48-51, collect_daytrade lines 25-28: the date goes to the
\* missing list when the fetch returned None
CollectRecord ==
    /\ gPc = "fetched"
    /\ gMissing' = IF gFetched = None THEN <<gDate>> ELSE <<>>
    /\ gPc' = "done"
    /\ UNCHANGED <<gKind, gDate, gCsv, gRetry, gAttempt, gLog, gJs, gFetched>>
    /\ UNCHANGED <<normVars, mainVars, collectVars, mergeVars, fileVars, writerVars>>

RetryNext ==
    \/ FetchBegin
    \/ GetJsonAttempt
    \/ GetJsonExhausted
    \/ FetchEnd
    \/ CollectRecord

(***************************************************************************)
(* The specifications: each runs one part and leaves the others idle.      *)
(***************************************************************************)
\* normalize_symbols on a list of raw tokens; the other parts idle
InitNormalize ==
    /\ nRaw \in SeqsUpTo(Tokens, MaxRaw)
    /\ nOut = <<>>
    /\ nTwice = <<>>
    /\ nPc = "raw"
    /\ args = None
    /\ pc = "idle"
    /\ exitCode = <<>>
    /\ calls = <<>>
    /\ symbols = <<>>
    /\ start = None
    /\ end = None
    /\ data = None
    /\ written = <<>>
    /\ date_range = <<>>
    /\ t86_df = None
    /\ daytrade_df = None
    /\ mergeIdx = 0
    /\ merged_written = <<>>
    /\ cKind = "idle"
    /\ cDates = <<>>
    /\ cIdx = 0
    /\ cVisited = <<>>
    /\ cFrames = <<>>
    /\ cMissing = <<>>
    /\ cConcat = None
    /\ cResult = None
    /\ cPc = "idle"
    /\ price_df = None
    /\ inst_df = None
    /\ dt_df = None
    /\ mSymbol = <<>>
    /\ mResult = None
    /\ mPc = "idle"
    /\ fSymbol = <<>>
    /\ fStart = None
    /\ fEnd = None
    /\ fExt = <<>>
    /\ fName = <<>>
    /\ fAgain = <<>>
    /\ fPc = "idle"
    /\ wDf = None
    /\ wSymbols = <<>>
    /\ wStart = None
    /\ wEnd = None
    /\ wFormat = <<>>
    /\ wIdx = 0
    /\ wWritten = <<>>
    /\ wResult = None
    /\ wPc = "idle"
    /\ gKind = "idle"
    /\ gDate = None
    /\ gCsv = None
    /\ gRetry = 0
    /\ gAttempt = 0
    /\ gLog = <<>>
    /\ gJs = None
    /\ gFetched = None
    /\ gMissing = <<>>
    /\ gPc = "idle"

\* a run of main on some command line; the other parts idle
Init ==
    /\ args \in ArgSpace
    /\ pc = "validate"
    /\ exitCode = <<>>
    /\ calls = <<>>
    /\ symbols = <<>>
    /\ start = None
    /\ end = None
    /\ data = None
    /\ written = <<>>
    /\ date_range = <<>>
    /\ t86_df = None
    /\ daytrade_df = None
    /\ mergeIdx = 0
    /\ merged_written = <<>>
    /\ nRaw = <<>>
    /\ nOut = <<>>
    /\ nTwice = <<>>
    /\ nPc = "idle"
    /\ cKind = "idle"
    /\ cDates = <<>>
    /\ cIdx = 0
    /\ cVisited = <<>>
    /\ cFrames = <<>>
    /\ cMissing = <<>>
    /\ cConcat = None
    /\ cResult = None
    /\ cPc = "idle"
    /\ price_df = None
    /\ inst_df = None
    /\ dt_df = None
    /\ mSymbol = <<>>
    /\ mResult = None
    /\ mPc = "idle"
    /\ fSymbol = <<>>
    /\ fStart = None
    /\ fEnd = None
    /\ fExt = <<>>
    /\ fName = <<>>
    /\ fAgain = <<>>
    /\ fPc = "idle"
    /\ wDf = None
    /\ wSymbols = <<>>
    /\ wStart = None
    /\ wEnd = None
    /\ wFormat = <<>>
    /\ wIdx = 0
    /\ wWritten = <<>>
    /\ wResult = None
    /\ wPc = "idle"
    /\ gKind = "idle"
    /\ gDate = None
    /\ gCsv = None
    /\ gRetry = 0
    /\ gAttempt = 0
    /\ gLog = <<>>
    /\ gJs = None
    /\ gFetched = None
    /\ gMissing = <<>>
    /\ gPc = "idle"

\* a collector on some list of dates; the other parts idle
InitCollect ==
    /\ cKind \in Kinds
    /\ \E s \in CollectStarts, n \in 0..MaxDates : cDates = DateList(s, n)
    /\ cIdx = 1
    /\ cVisited = <<>>
    /\ cFrames = <<>>
    /\ cMissing = <<>>
    /\ cConcat = None
    /\ cResult = None
    /\ cPc = "loop"
    /\ nRaw = <<>>
    /\ nOut = <<>>
    /\ nTwice = <<>>
    /\ nPc = "idle"
    /\ args = None
    /\ pc = "idle"
    /\ exitCode = <<>>
    /\ calls = <<>>
    /\ symbols = <<>>
    /\ start = None
    /\ end = None
    /\ data = None
    /\ written = <<>>
    /\ date_range = <<>>
    /\ t86_df = None
    /\ daytrade_df = None
    /\ mergeIdx = 0
    /\ merged_written = <<>>
    /\ price_df = None
    /\ inst_df = None
    /\ dt_df = None
    /\ mSymbol = <<>>
    /\ mResult = None
    /\ mPc = "idle"
    /\ fSymbol = <<>>
    /\ fStart = None
    /\ fEnd = None
    /\ fExt = <<>>
    /\ fName = <<>>
    /\ fAgain = <<>>
    /\ fPc = "idle"
    /\ wDf = None
    /\ wSymbols = <<>>
    /\ wStart = None
    /\ wEnd = None
    /\ wFormat = <<>>
    /\ wIdx = 0
    /\ wWritten = <<>>
    /\ wResult = None
    /\ wPc = "idle"
    /\ gKind = "idle"
    /\ gDate = None
    /\ gCsv = None
    /\ gRetry = 0
    /\ gAttempt = 0
    /\ gLog = <<>>
    /\ gJs = None
    /\ gFetched = None
    /\ gMissing = <<>>
    /\ gPc = "idle"

\* the merge on some frames; the other parts idle
InitMerge ==
    /\ price_df \in PriceFrames
    /\ inst_df \in InstFrames
    /\ dt_df \in DtFrames
    /\ mSymbol \in MergeSymbols
    /\ mResult = None
    /\ mPc = "call"
    /\ nRaw = <<>>
    /\ nOut = <<>>
    /\ nTwice = <<>>
    /\ nPc = "idle"
    /\ args = None
    /\ pc = "idle"
    /\ exitCode = <<>>
    /\ calls = <<>>
    /\ symbols = <<>>
    /\ start = None
    /\ end = None
    /\ data = None
    /\ written = <<>>
    /\ date_range = <<>>
    /\ t86_df = None
    /\ daytrade_df = None
    /\ mergeIdx = 0
    /\ merged_written = <<>>
    /\ cKind = "idle"
    /\ cDates = <<>>
    /\ cIdx = 0
    /\ cVisited = <<>>
    /\ cFrames = <<>>
    /\ cMissing = <<>>
    /\ cConcat = None
    /\ cResult = None
    /\ cPc = "idle"
    /\ fSymbol = <<>>
    /\ fStart = None
    /\ fEnd = None
    /\ fExt = <<>>
    /\ fName = <<>>
    /\ fAgain = <<>>
    /\ fPc = "idle"
    /\ wDf = None
    /\ wSymbols = <<>>
    /\ wStart = None
    /\ wEnd = None
    /\ wFormat = <<>>
    /\ wIdx = 0
    /\ wWritten = <<>>
    /\ wResult = None
    /\ wPc = "idle"
    /\ gKind = "idle"
    /\ gDate = None
    /\ gCsv = None
    /\ gRetry = 0
    /\ gAttempt = 0
    /\ gLog = <<>>
    /\ gJs = None
    /\ gFetched = None
    /\ gMissing = <<>>
    /\ gPc = "idle"

NormNext == NormCall \/ NormAgain

SpecNormalize == InitNormalize /\ [][NormNext]_vars

Spec == Init /\ [][MainNext]_vars

SpecCollect == InitCollect /\ [][CollectNext]_vars

MergeNext == MergeCall

SpecMerge == InitMerge /\ [][MergeNext]_vars

\* generate_filename on a symbol, two dates (or no end date) and an extension;
\* the other parts idle
InitFilename ==
    /\ fSymbol \in FileSymbols
    /\ fStart \in FileDates
    /\ fEnd \in FileEnds
    /\ fExt \in FileExts
    /\ fName = <<>>
    /\ fAgain = <<>>
    /\ fPc = "call"
    /\ nRaw = <<>>
    /\ nOut = <<>>
    /\ nTwice = <<>>
    /\ nPc = "idle"
    /\ args = None
    /\ pc = "idle"
    /\ exitCode = <<>>
    /\ calls = <<>>
    /\ symbols = <<>>
    /\ start = None
    /\ end = None
    /\ data = None
    /\ written = <<>>
    /\ date_range = <<>>
    /\ t86_df = None
    /\ daytrade_df = None
    /\ mergeIdx = 0
    /\ merged_written = <<>>
    /\ cKind = "idle"
    /\ cDates = <<>>
    /\ cIdx = 0
    /\ cVisited = <<>>
    /\ cFrames = <<>>
    /\ cMissing = <<>>
    /\ cConcat = None
    /\ cResult = None
    /\ cPc = "idle"
    /\ price_df = None
    /\ inst_df = None
    /\ dt_df = None
    /\ mSymbol = <<>>
    /\ mResult = None
    /\ mPc = "idle"
    /\ wDf = None
    /\ wSymbols = <<>>
    /\ wStart = None
    /\ wEnd = None
    /\ wFormat = <<>>
    /\ wIdx = 0
    /\ wWritten = <<>>
    /\ wResult = None
    /\ wPc = "idle"
    /\ gKind = "idle"
    /\ gDate = None
    /\ gCsv = None
    /\ gRetry = 0
    /\ gAttempt = 0
    /\ gLog = <<>>
    /\ gJs = None
    /\ gFetched = None
    /\ gMissing = <<>>
    /\ gPc = "idle"

SpecFilename == InitFilename /\ [][FilenameNext]_vars

\* write_symbol_frames on a frame and a list of requested symbols; the other
\* parts idle
InitWriter ==
    /\ wDf \in WriterFrames
    /\ wSymbols \in SeqsUpTo(WriterSymbols, MaxSyms)
    /\ wStart = [y |-> 2025, m |-> 1, d |-> 1]
    /\ wEnd \in WriterEnds
    /\ wFormat \in FileExts
    /\ wIdx = 0
    /\ wWritten = <<>>
    /\ wResult = None
    /\ wPc = "ensure_dir"
    /\ nRaw = <<>>
    /\ nOut = <<>>
    /\ nTwice = <<>>
    /\ nPc = "idle"
    /\ args = None
    /\ pc = "idle"
    /\ exitCode = <<>>
    /\ calls = <<>>
    /\ symbols = <<>>
    /\ start = None
    /\ end = None
    /\ data = None
    /\ written = <<>>
    /\ date_range = <<>>
    /\ t86_df = None
    /\ daytrade_df = None
    /\ mergeIdx = 0
    /\ merged_written = <<>>
    /\ cKind = "idle"
    /\ cDates = <<>>
    /\ cIdx = 0
    /\ cVisited = <<>>
    /\ cFrames = <<>>
    /\ cMissing = <<>>
    /\ cConcat = None
    /\ cResult = None
    /\ cPc = "idle"
    /\ price_df = None
    /\ inst_df = None
    /\ dt_df = None
    /\ mSymbol = <<>>
    /\ mResult = None
    /\ mPc = "idle"
    /\ fSymbol = <<>>
    /\ fStart = None
    /\ fEnd = None
    /\ fExt = <<>>
    /\ fName = <<>>
    /\ fAgain = <<>>
    /\ fPc = "idle"
    /\ gKind = "idle"
    /\ gDate = None
    /\ gCsv = None
    /\ gRetry = 0
    /\ gAttempt = 0
    /\ gLog = <<>>
    /\ gJs = None
    /\ gFetched = None
    /\ gMissing = <<>>
    /\ gPc = "idle"

SpecWriter == InitWriter /\ [][WriterNext]_vars

\* one date of a collector: the fetch of that date with the retries of
\* _get_json; the other parts idle
InitRetry ==
    /\ gKind \in RetryKinds
    /\ gDate \in RetryDates
    /\ gCsv \in CsvResponses
    /\ gRetry \in 0..MaxRetry
    /\ gAttempt = 0
    /\ gLog = <<>>
    /\ gJs = None
    /\ gFetched = None
    /\ gMissing = <<>>
    /\ gPc = "fetch"
    /\ nRaw = <<>>
    /\ nOut = <<>>
    /\ nTwice = <<>>
    /\ nPc = "idle"
    /\ args = None
    /\ pc = "idle"
    /\ exitCode = <<>>
    /\ calls = <<>>
    /\ symbols = <<>>
    /\ start = None
    /\ end = None
    /\ data = None
    /\ written = <<>>
    /\ date_range = <<>>
    /\ t86_df = None
    /\ daytrade_df = None
    /\ mergeIdx = 0
    /\ merged_written = <<>>
    /\ cKind = "idle"
    /\ cDates = <<>>
    /\ cIdx = 0
    /\ cVisited = <<>>
    /\ cFrames = <<>>
    /\ cMissing = <<>>
    /\ cConcat = None
    /\ cResult = None
    /\ cPc = "idle"
    /\ price_df = None
    /\ inst_df = None
    /\ dt_df = None
    /\ mSymbol = <<>>
    /\ mResult = None
    /\ mPc = "idle"
    /\ fSymbol = <<>>
    /\ fStart = None
    /\ fEnd = None
    /\ fExt = <<>>
    /\ fName = <<>>
    /\ fAgain = <<>>
    /\ fPc = "idle"
    /\ wDf = None
    /\ wSymbols = <<>>
    /\ wStart = None
    /\ wEnd = None
    /\ wFormat = <<>>
    /\ wIdx = 0
    /\ wWritten = <<>>
    /\ wResult = None
    /\ wPc = "idle"

SpecRetry == InitRetry /\ [][RetryNext]_vars

(***************************************************************************)
(* Properties of a run of main (Spec).                                     *)
(***************************************************************************)
Ended == pc \in {"exited", "crashed"}

\* the (data-source, intended-use) pair of the run is not permitted by the table
PairDenied == ~LICENCE_MATRIX[<<args.provider, args.intended_use>>]

FetchAndOutputCalls ==
    {"fetch_history", "write_symbol_frames", "collect_t86", "collect_daytrade",
     "merge_price_institution_daytrade"}

NoneReached(names) == \A i \in 1..Len(calls) : calls[i] \notin names

\* C1 as stated: whenever the pair is not permitted, none of fetch_history,
\* write_symbol_frames, collect_t86, collect_daytrade and the merge is ever
\* reached, and the run that ended has ended with exit code 5.
C1_AsStated ==
    PairDenied =>
        /\ NoneReached(FetchAndOutputCalls)
        /\ Ended => (pc = "exited" /\ exitCode = <<5>>)

\* C1 (amended): whenever the pair is not permitted, none of fetch_history,
\* write_symbol_frames, collect_t86, collect_daytrade and the merge is ever
\* reached; once past validation and the license check the run has ended, with
\* exit code 5 when its arguments are valid and with 2 when they are not; and 5
\* is the exit code of no other outcome.
C1_DeniedPairAborts ==
    /\ PairDenied =>
          /\ NoneReached(FetchAndOutputCalls)
          /\ pc \notin {"validate", "license"} =>
                /\ pc = "exited"
                /\ validate(args).ok => exitCode = <<5>>
                /\ ~validate(args).ok => exitCode = <<2>>
    /\ exitCode = <<5>> => (PairDenied /\ validate(args).ok)

\* a run with valid arguments and a denied pair has ended with exit code 5
C1_Witness ==
    /\ pc = "exited"
    /\ exitCode = <<5>>
    /\ PairDenied
    /\ args.twse_t86
    /\ calls = <<"check_license">>

\* the intended use is one the table denies for the twse source
TwseDenied == ~LICENCE_MATRIX[<<"twse", args.intended_use>>]

\* C2: in a run whose intended use is denied for twse (redistribute or
\* commercial), collect_t86, collect_daytrade and
\* merge_price_institution_daytrade are never invoked, whatever --provider is.
C2_TwseNeverInvokedWhenDenied ==
    TwseDenied =>
        NoneReached({"collect_t86", "collect_daytrade", "merge_price_institution_daytrade"})

\* a configuration error as the claim lists them: no valid symbol, an unparsable
\* start date, an unparsable end date, an end date before the start date
ConfigurationError ==
    \/ normalize_symbols(args.symbols, TRUE) = <<>>
    \/ ~parse_date(args.start_date).ok
    \/ /\ Truthy(args.end_date)
       /\ \/ ~parse_date(args.end_date.text).ok
          \/ /\ parse_date(args.start_date).ok
             /\ DateLess(parse_date(args.end_date.text).date, parse_date(args.start_date).date)

\* C3: a run with a configuration error makes no call at all (no license check,
\* fetch_history, write_symbol_frames, collector or merge) and, once validation
\* has run, has ended with exit code 2.
C3_ConfigErrorExits2 ==
    ConfigurationError =>
        /\ calls = <<>>
        /\ written = <<>> /\ merged_written = <<>>
        /\ pc \in {"validate", "exited"}
        /\ pc = "exited" => exitCode = <<2>>

\* a run whose end date is before its start date, and nothing else wrong, has ended
C3_Witness ==
    /\ pc = "exited"
    /\ exitCode = <<2>>
    /\ args.start_date = D_2025_01_03
    /\ args.end_date = Text(D_2025_01_02)
    /\ normalize_symbols(args.symbols, TRUE) # <<>>

(***************************************************************************)
(* Properties of normalize_symbols (SpecNormalize).                        *)
(***************************************************************************)
\* a token of 3 to 6 decimal digits
PurelyNumeric3to6(t) == Len(t) \in 3..6 /\ \A i \in 1..Len(t) : t[i] \in Digits

\* what a raw token stands for in the result: trimmed, with .TW when numeric
Qualified(t) == IF PurelyNumeric3to6(strip(t)) THEN strip(t) \o <<".", "T", "W">> ELSE strip(t)

\* the first place of raw whose token stands for x
FirstAt(raw, x) == CHOOSE i \in 1..Len(raw) : Qualified(raw[i]) = x /\ \A j \in 1..(i - 1) : Qualified(raw[j]) # x

\* C8: normalize_symbols returns the trimmed non-empty tokens, each once, in
\* first-occurrence order, with .TW appended to the tokens of 3 to 6 digits and to
\* no other; ["2330","AAPL","2330"] gives ["2330.TW","AAPL"]; and applying it to
\* its own result changes nothing.
C8_NormalizeSymbols ==
    /\ nPc \in {"once", "twice"} =>
          /\ Range(nOut) = { Qualified(nRaw[i]) : i \in { j \in 1..Len(nRaw) : strip(nRaw[j]) # <<>> } }
          /\ \A i, j \in 1..Len(nOut) : i < j => nOut[i] # nOut[j]
          /\ \A i, j \in 1..Len(nOut) : i < j => FirstAt(nRaw, nOut[i]) < FirstAt(nRaw, nOut[j])
          /\ \A i \in 1..Len(nRaw) :
                strip(nRaw[i]) # <<>> =>
                   IF PurelyNumeric3to6(strip(nRaw[i]))
                   THEN strip(nRaw[i]) \o <<".", "T", "W">> \in Range(nOut)
                   ELSE strip(nRaw[i]) \in Range(nOut)
          /\ nRaw = <<T_2330, T_AAPL, T_2330>> => nOut = <<S_2330_TW, T_AAPL>>
    /\ nPc = "twice" => nTwice = nOut

\* the list of the test, normalized twice
C8_Witness ==
    /\ nPc = "twice"
    /\ nRaw = <<T_2330, T_AAPL, T_2330>>
    /\ nOut = <<S_2330_TW, T_AAPL>>

(***************************************************************************)
(* Properties of the collectors (SpecCollect).                             *)
(***************************************************************************)
FrameDates == [i \in 1..Len(cFrames) |-> cFrames[i].date]

IsSubsequenceOf(sub, full) ==
    \E pick \in SUBSET (1..Len(full)) :
        /\ Cardinality(pick) = Len(sub)
        /\ \A i \in 1..Len(sub) :
              \E k \in pick : Cardinality({j \in pick : j <= k}) = i /\ full[k] = sub[i]

\* C9: collect_t86 and collect_daytrade visit the dates once each, in order, to
\* the end of the list; every visited date has either given a frame or is in the
\* missing list, never both; the concatenated table holds the rows of every
\* frame under the frame's date; with no frame the result is the empty table.
C9_EveryDateVisitedOnce ==
    cKind \in {"t86", "daytrade"} =>
        /\ cVisited = SubSeq(cDates, 1, Len(cVisited))
        /\ cPc = "done" => cVisited = cDates
        /\ \A i \in 1..Len(cVisited) :
              (cVisited[i] \in Range(FrameDates)) # (cVisited[i] \in Range(cMissing))
        /\ Len(cFrames) + Len(cMissing) = Len(cVisited)
        /\ IsSubsequenceOf(FrameDates, cVisited)
        /\ IsSubsequenceOf(cMissing, cVisited)
        /\ (cPc = "done" /\ cFrames = <<>>) => (cResult = EmptyFrame /\ cMissing = cDates)
        /\ (cPc = "done" /\ cFrames # <<>>) =>
              /\ cConcat # None
              /\ { cConcat.rows[k].date : k \in 1..Len(cConcat.rows) } = Range(FrameDates)
              /\ \A i \in 1..Len(cFrames) : \A j \in 1..Len(cFrames[i].rows) :
                    \E k \in 1..Len(cConcat.rows) :
                        /\ cConcat.rows[k].date = cFrames[i].date
                        /\ cConcat.rows[k].cell = cFrames[i].rows[j].cell

\* collect_t86 went through three dates, the first failed and a later one gave rows
C9_Witness ==
    /\ cKind = "t86"
    /\ cPc = "done"
    /\ Len(cDates) = 3
    /\ cMissing # <<>> /\ cMissing[1] = cDates[1]
    /\ cFrames # <<>>

\* the number a well-formed cell stands for, for the cells of RawCells
CellNumber(cell) == IF cell = C_1234 THEN <<1234>> ELSE IF cell = C_12 THEN <<12>> ELSE Null

\* C10: whatever the cells of the collected pages, the collector returns a table,
\* in which a cell that is no integer ("N/A", "12.5") is a missing value and a
\* well-formed cell is its number ("1,234" is 1234).
C10_MalformedCellNeverRaises ==
    (cPc = "done" /\ cFrames # <<>>) =>
        /\ cResult # Raised
        /\ Len(cResult.rows) = Len(cConcat.rows)
        /\ \A k \in 1..Len(cResult.rows) : cResult.rows[k].value = CellNumber(cConcat.rows[k].cell)

(***************************************************************************)
(* Properties of merge_price_institution_daytrade (SpecMerge).             *)
(***************************************************************************)
Returned == mPc = "returned" /\ mResult # Raised

\* the date of a price row, in its Date column or in its index
PriceDate(i) ==
    IF "Date" \in Range(price_df.cols) THEN price_df.rows[i].Date ELSE price_df.rows[i].index

BareCode == strip(split(mSymbol, ".")[1])

\* the rows of an auxiliary table that are rows of the bare code
CodeRows(aux) ==
    IF aux = None \/ "code" \notin Range(aux.cols) THEN {}
    ELSE { k \in 1..Len(aux.rows) : strip(aux.rows[k].code) = BareCode }

HasDuplicateDate(aux) ==
    \E j, k \in CodeRows(aux) : j # k /\ aux.rows[j].date = aux.rows[k].date

\* result row r carries price row i: same date and same price fields
Carries(r, i) ==
    /\ r.Date = PriceDate(i)
    /\ \A c \in Range(price_df.cols) : r[c] = price_df.rows[i][c]

\* C4: the merged table has at least as many rows as the price table, exactly as
\* many when neither auxiliary table has two rows of the bare code on one date,
\* and every price row is carried by a row of the result.
C4_RowCount ==
    Returned =>
        /\ Len(mResult.rows) >= Len(price_df.rows)
        /\ (~HasDuplicateDate(inst_df) /\ ~HasDuplicateDate(dt_df)) =>
              Len(mResult.rows) = Len(price_df.rows)
        /\ \A i \in 1..Len(price_df.rows) :
              \E k \in 1..Len(mResult.rows) : Carries(mResult.rows[k], i)

\* two price rows, one of them fanned out by a duplicate date of the institutional table
C4_Witness ==
    /\ Returned
    /\ Len(price_df.rows) = 2
    /\ Len(mResult.rows) = 3
    /\ HasDuplicateDate(inst_df)

\* an auxiliary table that is given and not empty
GivenNonEmpty(aux) == aux # None /\ aux.rows # <<>> /\ aux.cols # <<>>

\* the columns the institutional table gives the result, and the day-trade table
InstContributed ==
    IF GivenNonEmpty(inst_df)
    THEN (Range(inst_df.cols) \ {"name", "date"}) \cup ({"foreign_net_ratio"} \cap Range(mResult.cols))
    ELSE {}

DtContributed ==
    IF GivenNonEmpty(dt_df)
    THEN { IF c \in InstContributed THEN with_suffix(c, "_dt") ELSE c :
              c \in Range(dt_df.cols) \ {"name", "date"} }
         \cup ({"daytrade_volume_ratio"} \cap Range(mResult.cols))
    ELSE {}

Unmatched(aux, i) == \A k \in CodeRows(aux) : aux.rows[k].date # PriceDate(i)

NullFilled(aux, contributed) ==
    GivenNonEmpty(aux) =>
        \A i \in 1..Len(price_df.rows) :
            Unmatched(aux, i) =>
                /\ contributed \subseteq Range(mResult.cols)
                /\ \E k \in 1..Len(mResult.rows) : Carries(mResult.rows[k], i)
                /\ \A k \in 1..Len(mResult.rows) :
                      Carries(mResult.rows[k], i) =>
                          \A c \in contributed : mResult.rows[k][c] = Null

\* C5: for a given non-empty auxiliary table, a price row whose date has no row
\* of the bare code in it (also when the table has no code column) is in the
\* result with its price fields unchanged and every field of that table null.
C5_NullFilling ==
    Returned => (NullFilled(inst_df, InstContributed) /\ NullFilled(dt_df, DtContributed))

\* an institutional table with rows and no code column, merged onto a price row
C5_Witness ==
    /\ Returned
    /\ GivenNonEmpty(inst_df)
    /\ "sid" \in Range(inst_df.cols)
    /\ Len(price_df.rows) = 2
    /\ \A k \in 1..Len(mResult.rows) : mResult.rows[k].foreign_net = Null /\ mResult.rows[k].sid = Null

ZeroRows(aux) == aux # None /\ aux.rows = <<>>

\* C6: merging with an auxiliary table of zero rows gives what merging with None
\* in its place gives, for the institutional and for the day-trade argument.
C6_EmptyAsNone ==
    mPc = "returned" =>
        /\ ZeroRows(inst_df) =>
              mResult = merge_price_institution_daytrade(price_df, None, dt_df, mSymbol, "Date")
        /\ ZeroRows(dt_df) =>
              mResult = merge_price_institution_daytrade(price_df, inst_df, None, mSymbol, "Date")

\* an institutional table with columns and no row, merged onto two price rows
C6_Witness ==
    /\ Returned
    /\ inst_df = [cols |-> INST_COLS, rows |-> <<>>]
    /\ GivenNonEmpty(dt_df)
    /\ Len(price_df.rows) = 2
    /\ "foreign_net" \notin Range(mResult.cols)

HasVolumeColumn == "Volume" \in Range(price_df.cols)

RatioAsClaimed(num_col, ratio_col) ==
    /\ ratio_col \in Range(mResult.cols) =>
          /\ HasVolumeColumn
          /\ \E i \in 1..Len(price_df.rows) : price_df.rows[i].Volume # Null
          /\ \A k \in 1..Len(mResult.rows) :
                LET v == mResult.rows[k].Volume
                    n == mResult.rows[k][num_col]
                    q == mResult.rows[k][ratio_col]
                IN  /\ (v # Null /\ v # <<0>> /\ n # Null) => q = <<n[1], v[1]>>
                    /\ (v = Null \/ v = <<0>>) => q = Null
    /\ (num_col \in Range(mResult.cols) /\ ratio_col \notin Range(mResult.cols)) =>
          (~HasVolumeColumn \/ \A i \in 1..Len(price_df.rows) : price_df.rows[i].Volume = Null)

\* C7: a ratio column is there only when the Volume column exists and is non-null
\* in some row; in every row the ratio is numerator / volume when the volume is a
\* non-zero number, and null when the volume is null or zero.
C7_Ratios ==
    Returned =>
        /\ RatioAsClaimed("foreign_net", "foreign_net_ratio")
        /\ RatioAsClaimed("daytrade_volume", "daytrade_volume_ratio")

(***************************************************************************)
(* The merge loop of main and the names of the files it writes (Spec).     *)
(***************************************************************************)
MergeRequested == args.merge_twse /\ (args.twse_t86 \/ args.twse_daytrade)

\* the run reached the merge loop: every collector asked for has handed back
InMergeLoop ==
    /\ pc \in {"merge", "exited", "crashed"}
    /\ mergeIdx >= 1
    /\ args.twse_t86 => t86_df # None
    /\ args.twse_daytrade => daytrade_df # None

\* the loop stopped on symbols[mergeIdx]: its price table has no date key
MergeRaised == InMergeLoop /\ pc = "crashed"

\* the price file of the i-th symbol exists: this run wrote it
PriceFileWritten(i) == generate_filename(symbols[i], start, end, CSV) \in Range(written)

MergedFileWritten(i) == merged_filename(symbols[i], start, end) \in Range(merged_written)

\* C11: when the merge of one symbol fails for want of a date key in its price
\* table, the run that is over has still written the merged file of every other
\* symbol whose price file exists.
C11_MergeFailureOnlyThatSymbol ==
    (Ended /\ MergeRequested /\ InMergeLoop) =>
        \A i \in 1..Len(symbols) :
            (PriceFileWritten(i) /\ ~(MergeRaised /\ i = mergeIdx)) => MergedFileWritten(i)

(***************************************************************************)
(* Properties of generate_filename (SpecFilename).                         *)
(***************************************************************************)
\* t is the eight digits YYYYMMDD of the date d
IsYYYYMMDD(t, d) ==
    /\ Len(t) = 8
    /\ \A i \in 1..8 : t[i] \in Digits
    /\ ParseInt(SubSeq(t, 1, 4)) = d.y
    /\ ParseInt(SubSeq(t, 5, 6)) = d.m
    /\ ParseInt(SubSeq(t, 7, 8)) = d.d

\* t is the end part of a name: the date, or the word latest when there is none
IsEndPart(t, e) ==
    IF e = None THEN t = <<"l", "a", "t", "e", "s", "t">> ELSE IsYYYYMMDD(t, e)

\* name is exactly prefix, the start part, "_", the end part, "." and ext
NamedAs(name, prefix, s, e, ext) ==
    LET n == Len(prefix)
        k == IF e = None THEN 6 ELSE 8
    IN  /\ Len(name) = n + 8 + 1 + k + 1 + Len(ext)
        /\ SubSeq(name, 1, n) = prefix
        /\ IsYYYYMMDD(SubSeq(name, n + 1, n + 8), s)
        /\ name[n + 9] = "_"
        /\ IsEndPart(SubSeq(name, n + 10, n + 9 + k), e)
        /\ name[n + 10 + k] = "."
        /\ SubSeq(name, n + 11 + k, Len(name)) = ext

TheExample ==
    /\ fSymbol = <<"2", "3", "3", "0", ".", "T", "W">>
    /\ fStart = [y |-> 2025, m |-> 1, d |-> 1]
    /\ fEnd = [y |-> 2025, m |-> 7, d |-> 18]
    /\ fExt = <<"c", "s", "v">>

\* C12: generate_filename returns exactly symbol, "_", the start as YYYYMMDD, "_",
\* the end as YYYYMMDD or the word latest when there is no end, ".", ext; a second
\* call on the same arguments returns the same name; 2330.TW, 2025-01-01,
\* 2025-07-18, csv give 2330.TW_20250101_20250718.csv.
C12_GenerateFilename ==
    /\ fPc \in {"again", "done"} =>
          /\ NamedAs(fName, fSymbol \o <<"_">>, fStart, fEnd, fExt)
          /\ TheExample =>
                fName = <<"2", "3", "3", "0", ".", "T", "W", "_",
                          "2", "0", "2", "5", "0", "1", "0", "1", "_",
                          "2", "0", "2", "5", "0", "7", "1", "8", ".", "c", "s", "v">>
    /\ fPc = "done" => fAgain = fName

C12_Witness == fPc = "done" /\ TheExample /\ Len(fName) = 29

\* every file of merged_written is some symbol of the run, the infix, the start
\* part, "_", the end part and ".csv"
MergedFilesNamedWith(infix) ==
    \A k \in 1..Len(merged_written) :
        \E i \in 1..Len(symbols) :
            NamedAs(merged_written[k], symbols[i] \o infix, start, end, <<"c", "s", "v">>)

\* C13 as stated: every merged file that main writes for a symbol is named
\* {symbol}_MERGED_{start as YYYYMMDD}_{end as YYYYMMDD or latest}.csv.
C13_AsStated ==
    MergedFilesNamedWith(<<"_", "M", "E", "R", "G", "E", "D", "_">>)

\* C13: every merged file that main writes for a symbol is named
\* {symbol}_TWSE_MERGED_{start as YYYYMMDD}_{end as YYYYMMDD or latest}.csv.
C13_MergedFileName ==
    MergedFilesNamedWith(<<"_", "T", "W", "S", "E", "_", "M", "E", "R", "G", "E", "D", "_">>)

C13_Witness ==
    /\ pc = "exited"
    /\ Len(merged_written) = 2
    /\ end = None

(***************************************************************************)
(* Properties of write_symbol_frames (SpecWriter).                         *)
(***************************************************************************)
\* the symbol is present in the fetched result: it heads a column of the
\* two-level frame; a single-level frame is the table of the symbol asked for
InFetchedResult(sym) == ~wDf.multi \/ sym \in wDf.cols

\* the files of the requested symbols that are present, in request order
ExpectedFiles ==
    LET kept == SelectSeq(wSymbols, InFetchedResult)
    IN  [i \in 1..Len(kept) |-> generate_filename(kept[i], wStart, wEnd, wFormat)]

\* C14: write_symbol_frames writes one file per requested symbol that is present
\* in the fetched result and none for an absent one, returns exactly the files it
\* wrote in request order, and raises no error on an absent symbol.
C14_WriteSymbolFrames ==
    /\ wPc = "returned" => (wWritten = ExpectedFiles /\ wResult = [files |-> wWritten])
    /\ wPc = "raised" => (wIdx = 0 \/ InFetchedResult(wSymbols[wIdx]))

(***************************************************************************)
(* Properties of _get_json and of the fetch around it (SpecRetry).         *)
(***************************************************************************)
\* the HTTP attempts made so far: the entries of the log that are not sleeps
Attempts == Cardinality({ i \in 1..Len(gLog) : gLog[i] # "sleep" })

\* _get_json has returned
GetJsonReturned == gPc \in {"got", "fetched", "done"} /\ gLog # <<>>

AllAttemptsFailed == \A i \in 1..Len(gLog) : gLog[i] \in {"request_error", "sleep"}

\* what the fetch of the date returns when the response is OK and holds no row
FetchedForNoData == fetch_single(gKind, gDate, [stat |-> "OK", data |-> <<>>], gCsv)

====
